---------------------------- MODULE Spec2Model ----------------------------
(***************************************************************************)
(* Model of the Google Maps ETL pipeline: main() and run_pipeline()        *)
(* (main.py), one run of GoogleMapsExtractor.extract() with the card loop, *)
(* the per-card extraction, the browser restart and the teardown           *)
(* (utils/extract.py), DataTransformer (utils/transform.py) and DataLoader *)
(* (utils/load.py).                                                        *)
(*                                                                         *)
(* Spec is the whole run.  SpecTransform applies the transform and load    *)
(* stages to raw record lists on their own; SpecProbe applies each field   *)
(* resolver to detail views on its own.                                    *)
(*                                                                         *)
(* Texts are sequences of one-character strings, so that strip(), split(), *)
(* float(), the regular expressions and the f-string formatting are        *)
(* computed and not assumed.  The browser is the environment: every driver *)
(* call either succeeds or raises; a call on a session that was quit       *)
(* always raises, and so does the use of an element handle that belongs to *)
(* another session.  driver.quit() itself never raises out of the driver   *)
(* (Selenium's Chromium quit() swallows its errors).  The file system is   *)
(* the environment too: os.makedirs and each write succeed or raise.       *)
(***************************************************************************)
EXTENDS Integers, Sequences, FiniteSets, TLC

\* Largest number of place cards the results feed yields in a run.
MaxCards == 2

\* GoogleMapsConfig.max_retries ("Recovery settings").
max_retries == 3

---------------------------------------------------------------------------
(* Texts *)

NoName == <<"N","o"," ","n","a","m","e">>
NoAddress == <<"N","o"," ","a","d","d","r","e","s","s">>
NoRating == <<"N","o"," ","r","a","t","i","n","g">>
NoCoordinates == <<"N","o"," ","c","o","o","r","d","i","n","a","t","e","s">>

Whitespace == {" ", "\t", "\n"}
Digit == {"0","1","2","3","4","5","6","7","8","9"}

RECURSIVE LStrip(_)
LStrip(s) ==
    IF s = <<>> THEN s
    ELSE IF Head(s) \in Whitespace THEN LStrip(Tail(s)) ELSE s

RECURSIVE RStrip(_)
RStrip(s) ==
    IF s = <<>> THEN s
    ELSE IF s[Len(s)] \in Whitespace THEN RStrip(SubSeq(s, 1, Len(s) - 1)) ELSE s

\* str.strip()
Strip(s) == RStrip(LStrip(s))

\* The outcome of one driver lookup: it raised, or it gave a text.
Raise == [ok |-> FALSE, text |-> <<>>]
Found(t) == [ok |-> TRUE, text |-> t]

---------------------------------------------------------------------------
(* Regular expressions of _extract_coordinates *)

\* First index after the run of digits that starts at i (i itself if none).
RECURSIVE DigitsEnd(_, _)
DigitsEnd(s, i) ==
    IF i <= Len(s) /\ s[i] \in Digit THEN DigitsEnd(s, i + 1) ELSE i

\* -?\d+\.\d+ matched at i: the index after the match, 0 when there is none.
FloatEnd(s, i) ==
    LET a == IF i <= Len(s) /\ s[i] = "-" THEN i + 1 ELSE i
        b == DigitsEnd(s, a)
        c == IF b > a /\ b <= Len(s) /\ s[b] = "." THEN DigitsEnd(s, b + 1) ELSE 0
    IN  IF c > b + 1 THEN c ELSE 0

HasAt(s, i, lit) ==
    /\ i >= 1
    /\ i + Len(lit) - 1 <= Len(s)
    /\ SubSeq(s, i, i + Len(lit) - 1) = lit

\* pre(-?\d+\.\d+)mid(-?\d+\.\d+) matched at i: the two groups, or <<>>.
MatchPairAt(s, i, pre, mid) ==
    LET a == i + Len(pre)
        e1 == FloatEnd(s, a)
        b == e1 + Len(mid)
        e2 == FloatEnd(s, b)
    IN  IF HasAt(s, i, pre) /\ e1 # 0 /\ HasAt(s, e1, mid) /\ e2 # 0
        THEN <<SubSeq(s, a, e1 - 1), SubSeq(s, b, e2 - 1)>>
        ELSE <<>>

RECURSIVE SearchPairFrom(_, _, _, _)
SearchPairFrom(s, i, pre, mid) ==
    IF i > Len(s) THEN <<>>
    ELSE IF MatchPairAt(s, i, pre, mid) # <<>> THEN MatchPairAt(s, i, pre, mid)
    ELSE SearchPairFrom(s, i + 1, pre, mid)

\* re.search(pre(-?\d+\.\d+)mid(-?\d+\.\d+), s).groups(), <<>> for no match.
ReSearch(s, pre, mid) == SearchPairFrom(s, 1, pre, mid)

AtSign == <<"@">>
Comma == <<",">>
Bang3d == <<"!","3","d">>
Bang4d == <<"!","4","d">>
LatKey == <<"\"","l","a","t","i","t","u","d","e","\"",":">>
LngKey == <<",","\"","l","o","n","g","i","t","u","d","e","\"",":">>

\* f"{lat},{lng}"
FormatPair(lat, lng) == lat \o Comma \o lng

---------------------------------------------------------------------------
(* Field resolvers: _extract_name, _extract_address, _extract_rating *)

\* The resolver loop without the test of the text (lines 201, 222, 242): the
\* text of the first selector whose lookup does not raise, empty or not.
RECURSIVE ResolveFromNoCheck(_, _, _)
ResolveFromNoCheck(outs, i, sentinel) ==
    IF i > Len(outs) THEN sentinel
    ELSE IF outs[i].ok THEN Strip(outs[i].text)
    ELSE ResolveFromNoCheck(outs, i + 1, sentinel)

\* The resolver loop without the return of lines 202, 223, 243: every
\* selector is tried and the last text found wins.
RECURSIVE ResolveFromLast(_, _, _)
ResolveFromLast(outs, i, sentinel) ==
    IF i > Len(outs) THEN sentinel
    ELSE IF /\ outs[i].ok
            /\ Strip(outs[i].text) # <<>>
            /\ ResolveFromLast(outs, i + 1, sentinel) = sentinel
    THEN Strip(outs[i].text)
    ELSE ResolveFromLast(outs, i + 1, sentinel)

\* The loop shared by the three resolvers: the stripped text of the first
\* selector, in list order, whose lookup does not raise and whose stripped
\* text is non-empty; the sentinel when the list is exhausted.
RECURSIVE ResolveFrom(_, _, _)
ResolveFrom(outs, i, sentinel) ==
    IF i > Len(outs) THEN sentinel
    ELSE IF outs[i].ok /\ Strip(outs[i].text) # <<>> THEN Strip(outs[i].text)
    ELSE ResolveFrom(outs, i + 1, sentinel)

_extract_name(page) == ResolveFrom(page.name, 1, NoName)
_extract_address(page) == ResolveFrom(page.address, 1, NoAddress)
_extract_rating(page) == ResolveFrom(page.rating, 1, NoRating)

---------------------------------------------------------------------------
(* _extract_coordinates *)

\* Method 1: the pattern @lat,lng in driver.current_url.
UrlCoords(page) == ReSearch(page.url.text, AtSign, Comma)

\* The share-button loop: the first selector that is clickable is clicked
\* and opens the share panel; the loop stops there.
ShareClicked(page) == \E i \in 1..Len(page.shareBtn) : page.shareBtn[i]

\* One share-link pattern search on the link text: !3d..!4d.. first, then
\* @lat,lng.
LinkCoords(text) ==
    IF ReSearch(text, Bang3d, Bang4d) # <<>> THEN ReSearch(text, Bang3d, Bang4d)
    ELSE ReSearch(text, AtSign, Comma)

\* The share-link loop from selector i on.  st carries the panel state and
\* whether an escape key was sent while no panel was open.  A selector
\* whose wait raises, or whose value attribute is missing (re.search then
\* raises TypeError), is skipped.  After a match the escape key is sent and
\* the pair returned; if sending the key raises, the bare except skips to
\* the next selector.  After the loop the key is sent once more, errors
\* ignored.
SendEscape(page, st) ==
    [panel |-> IF page.escOk THEN FALSE ELSE st.panel,
     stray |-> st.stray \/ ~st.panel]

RECURSIVE ShareLinkFrom(_, _, _)
ShareLinkFrom(page, i, st) ==
    IF i > Len(page.shareLink)
    THEN [found |-> FALSE, pair |-> <<>>, st |-> SendEscape(page, st)]
    ELSE LET o == page.shareLink[i]
         IN  IF ~o.ok THEN ShareLinkFrom(page, i + 1, st)
             ELSE IF LinkCoords(o.text) # <<>> /\ page.escOk
                  THEN [found |-> TRUE, pair |-> LinkCoords(o.text),
                        st |-> SendEscape(page, st)]
                  ELSE ShareLinkFrom(page, i + 1, SendEscape(page, st))

\* Method 2.  open: a share panel was already open when the method began.
ShareCoords(page, open) ==
    ShareLinkFrom(page, 1, [panel |-> (open \/ ShareClicked(page)), stray |-> FALSE])

\* Method 3: the first script whose innerHTML holds
\* "latitude":<f>,"longitude":<f>; a script whose attribute read raises is
\* skipped; find_elements raising skips the method.
RECURSIVE ScriptFrom(_, _)
ScriptFrom(items, i) ==
    IF i > Len(items) THEN <<>>
    ELSE IF items[i].ok /\ ReSearch(items[i].text, LatKey, LngKey) # <<>>
    THEN ReSearch(items[i].text, LatKey, LngKey)
    ELSE ScriptFrom(items, i + 1)

ScriptCoords(page) ==
    IF page.scripts.ok THEN ScriptFrom(page.scripts.items, 1) ELSE <<>>

\* Method 4: the first meta tag with property og:latitude whose content,
\* and the content of meta[property='og:longitude'], are both truthy.
\* Neither content is matched against a number pattern.
RECURSIVE MetaFrom(_, _)
MetaFrom(page, i) ==
    LET items == page.metas.items
    IN  IF i > Len(items) THEN <<>>
        ELSE IF /\ items[i].ok
                /\ items[i].isLat
                /\ page.lngMeta.ok
                /\ items[i].text # <<>>
                /\ page.lngMeta.text # <<>>
        THEN <<items[i].text, page.lngMeta.text>>
        ELSE MetaFrom(page, i + 1)

MetaCoords(page) ==
    IF page.metas.ok THEN MetaFrom(page, 1) ELSE <<>>

\* The whole chain.  raised: reading driver.current_url raised (the read
\* is outside every try block).  method: which method gave the value, 0 for
\* the sentinel.  panel: whether the share panel is open on return.
CoordResult(raised, value, method, st) ==
    [raised |-> raised, value |-> value, method |-> method,
     panel |-> st.panel, stray |-> st.stray]

Untouched(open) == [panel |-> open, stray |-> FALSE]

\* The chain with the script tags read before the share link.
_extract_coordinates_script_first(page, open) ==
    IF ~page.url.ok THEN CoordResult(TRUE, <<>>, 0, Untouched(open))
    ELSE IF UrlCoords(page) # <<>>
    THEN CoordResult(FALSE, FormatPair(UrlCoords(page)[1], UrlCoords(page)[2]), 1,
                     Untouched(open))
    ELSE IF ScriptCoords(page) # <<>>
    THEN CoordResult(FALSE,
             FormatPair(ScriptCoords(page)[1], ScriptCoords(page)[2]), 3,
             Untouched(open))
    ELSE LET sh == ShareCoords(page, open)
         IN  IF sh.found
             THEN CoordResult(FALSE, FormatPair(sh.pair[1], sh.pair[2]), 2, sh.st)
             ELSE IF MetaCoords(page) # <<>>
             THEN CoordResult(FALSE,
                      FormatPair(MetaCoords(page)[1], MetaCoords(page)[2]), 4, sh.st)
             ELSE CoordResult(FALSE, NoCoordinates, 0, sh.st)

_extract_coordinates(page, open) ==
    IF ~page.url.ok THEN CoordResult(TRUE, <<>>, 0, Untouched(open))
    ELSE IF UrlCoords(page) # <<>>
    THEN CoordResult(FALSE, FormatPair(UrlCoords(page)[1], UrlCoords(page)[2]), 1,
                     Untouched(open))
    ELSE LET sh == ShareCoords(page, open)
         IN  IF sh.found
             THEN CoordResult(FALSE, FormatPair(sh.pair[1], sh.pair[2]), 2, sh.st)
             ELSE IF ScriptCoords(page) # <<>>
             THEN CoordResult(FALSE,
                      FormatPair(ScriptCoords(page)[1], ScriptCoords(page)[2]), 3, sh.st)
             ELSE IF MetaCoords(page) # <<>>
             THEN CoordResult(FALSE,
                      FormatPair(MetaCoords(page)[1], MetaCoords(page)[2]), 4, sh.st)
             ELSE CoordResult(FALSE, NoCoordinates, 0, sh.st)

---------------------------------------------------------------------------
(* Detail views the browser can show after a card is clicked.  Each gives, *)
(* per selector of each resolver and per coordinate method, what the       *)
(* driver answers.                                                         *)

NoScripts == [ok |-> FALSE, items |-> <<>>]
NoMetas == [ok |-> FALSE, items |-> <<>>]
NoShareBtn == <<FALSE, FALSE, FALSE, FALSE, FALSE>>
NoShareLink == <<Raise, Raise, Raise, Raise>>

\* Everything is found by the first selector; the url holds @lat,lng.
PageFull ==
    [name |-> <<Found(<<" ","A"," ">>), Raise, Raise>>,
     address |-> <<Found(<<"S","t"," ","1">>), Raise, Raise, Raise, Raise, Raise>>,
     rating |-> <<Found(<<"4",".","5">>), Raise, Raise, Raise, Raise>>,
     url |-> Found(<<"/","@","-","6",".","9",",","1","1","0",".","4","/">>),
     shareBtn |-> NoShareBtn, shareLink |-> NoShareLink, escOk |-> TRUE,
     scripts |-> NoScripts, metas |-> NoMetas, lngMeta |-> Raise]

\* Nothing is found: every lookup raises, the url holds no pattern.
PageBare ==
    [name |-> <<Raise, Raise, Raise>>,
     address |-> <<Raise, Raise, Raise, Raise, Raise, Raise>>,
     rating |-> <<Raise, Raise, Raise, Raise, Raise>>,
     url |-> Found(<<"/","p","/">>),
     shareBtn |-> NoShareBtn, shareLink |-> NoShareLink, escOk |-> TRUE,
     scripts |-> NoScripts, metas |-> NoMetas, lngMeta |-> Raise]

\* Elements with empty or blank text, later selectors succeeding, and the
\* coordinates in the share link.
PageShare ==
    [name |-> <<Found(<<>>), Found(<<" ">>), Found(<<"\t","\n">>)>>,
     address |-> <<Raise, Found(<<" ">>), Raise, Found(<<"S","t">>), Raise, Raise>>,
     rating |-> <<Found(<<>>), Raise, Raise, Raise, Found(<<"5"," ">>)>>,
     url |-> Found(<<"/","p","/">>),
     shareBtn |-> <<FALSE, TRUE, FALSE, FALSE, FALSE>>,
     shareLink |-> <<Raise, Found(<<"x","!","3","d","-","6",".","9","!","4","d","1",".","5">>),
                     Raise, Raise>>,
     escOk |-> TRUE,
     scripts |-> NoScripts, metas |-> NoMetas, lngMeta |-> Raise]

\* The share panel opens, its link holds no pattern and the escape key
\* cannot be delivered; the coordinates are in a script tag.
PageScript ==
    [name |-> <<Raise, Found(<<"B">>), Raise>>,
     address |-> <<Raise, Raise, Raise, Raise, Raise, Raise>>,
     rating |-> <<Raise, Raise, Raise, Raise, Raise>>,
     url |-> Found(<<"/","p","/">>),
     shareBtn |-> <<TRUE, FALSE, FALSE, FALSE, FALSE>>,
     shareLink |-> <<Found(<<"/","p">>), Raise, Raise, Raise>>,
     escOk |-> FALSE,
     scripts |-> [ok |-> TRUE,
                  items |-> <<Raise,
                              Found(<<"{","\"","l","a","t","i","t","u","d","e","\"",":","1",".","2",
                                      ",","\"","l","o","n","g","i","t","u","d","e","\"",":",
                                      "-","3",".","4","}">>)>>],
     metas |-> NoMetas, lngMeta |-> Raise]

\* The coordinates are only in the meta tags, whose contents are free text.
PageMeta ==
    [name |-> <<Found(<<"C">>), Raise, Raise>>,
     address |-> <<Raise, Raise, Raise, Raise, Raise, Raise>>,
     rating |-> <<Raise, Raise, Raise, Raise, Raise>>,
     url |-> Found(<<"/","p","/">>),
     shareBtn |-> NoShareBtn, shareLink |-> NoShareLink, escOk |-> TRUE,
     scripts |-> [ok |-> TRUE, items |-> <<Found(<<"v","a","r">>)>>],
     metas |-> [ok |-> TRUE,
                items |-> <<[ok |-> FALSE, isLat |-> FALSE, text |-> <<>>],
                            [ok |-> TRUE, isLat |-> FALSE, text |-> <<"x">>],
                            [ok |-> TRUE, isLat |-> TRUE, text |-> <<"a","b","c">>]>>],
     lngMeta |-> Found(<<"1","1","0",".","4">>)]

\* The driver fails while the current url is read.
PageUrlError ==
    [name |-> <<Found(<<"D">>), Raise, Raise>>,
     address |-> <<Found(<<"S","t">>), Raise, Raise, Raise, Raise, Raise>>,
     rating |-> <<Found(<<"3",".","0">>), Raise, Raise, Raise, Raise>>,
     url |-> Raise,
     shareBtn |-> NoShareBtn, shareLink |-> NoShareLink, escOk |-> TRUE,
     scripts |-> NoScripts, metas |-> NoMetas, lngMeta |-> Raise]

Pages == {PageFull, PageBare, PageShare, PageScript, PageMeta, PageUrlError}

---------------------------------------------------------------------------
(* State *)

VARIABLES
    pc,           \* the statement extract() is at
    caller,       \* who called the start/navigate/search/scroll sequence:
                  \* "extract", or the line of _extract_single_place that
                  \* called _restart_browser_and_search
    driver,       \* self.driver: 0 for None, else the session it holds
    started,      \* number of browser sessions started so far
    live,         \* the sessions that are started and not quit
    view,         \* what the session self.driver holds is showing
    panel,        \* whether a share panel is open in that view
    cards,        \* the card handles extract_place_cards enumerated
    idx,          \* number of cards the loop is done with
    place_data,   \* _extract_single_place's place_data: <<>> or <<record>>
    results,      \* extract_place_cards' local results
    selfResults,  \* self.results
    outcome,      \* of extract(): "running", "returned" or "raised"
    ret,          \* the list extract() returned
    restarts,     \* calls of _restart_browser_and_search so far
    closeCalls,   \* calls of close() so far
    closeQuit,    \* what close() did: "none", or a quit() on a "live" or on
                  \* an already quit ("dead") session
    yielded,      \* cards for which _extract_single_place returned a record
    brokenAt,     \* card whose return to the list (line 273) failed last, or 0
    faults,       \* some driver call other than those of _go_back_to_list
                  \* failed although its session and its handle were valid
    restartFailed,\* an exception left _restart_browser_and_search
    structural,   \* no search-box selector found an element, or the results
                  \* container was not found
    strayEsc,     \* an escape key was sent while no share panel was open
    stage,        \* the statement run_pipeline()/main() is at
    raw_data,     \* run_pipeline's raw_data
    transformed_data, \* run_pipeline's transformed_data
    loaded,       \* what DataLoader.load did and returned
    success,      \* main's success: "unset", or the value run_pipeline returned
    exitStatus,   \* the status sys.exit was called with, -1 before
    probe,        \* a detail view handed to one resolver on its own
    answer        \* what that resolver returned

vars == <<pc, caller, driver, started, live, view, panel, cards, idx, place_data,
          results, selfResults, outcome, ret, restarts, closeCalls, closeQuit,
          yielded, brokenAt, faults, restartFailed, structural, strayEsc,
          stage, raw_data, transformed_data, loaded, success, exitStatus,
          probe, answer>>

extractorVars == <<pc, caller, driver, started, live, view, panel, cards, idx,
                   place_data, results, selfResults, outcome, ret, restarts,
                   closeCalls, closeQuit, yielded, brokenAt, faults, restartFailed,
                   structural, strayEsc>>
pipeVars == <<stage, raw_data, transformed_data, loaded, success, exitStatus>>
probeVars == <<probe, answer>>

Keys == {"name", "address", "rating", "coordinates"}

\* GoogleMapsExtractor.__init__: no driver, no results.
ExtractorStart ==
    /\ pc = "setup"
    /\ caller = "extract"
    /\ driver = 0
    /\ started = 0
    /\ live = {}
    /\ view = "none"
    /\ panel = FALSE
    /\ cards = <<>>
    /\ idx = 0
    /\ place_data = <<>>
    /\ results = <<>>
    /\ selfResults = <<>>
    /\ outcome = "running"
    /\ ret = <<>>
    /\ restarts = 0
    /\ closeCalls = 0
    /\ closeQuit = "none"
    /\ yielded = 0
    /\ brokenAt = 0
    /\ faults = FALSE
    /\ restartFailed = FALSE
    /\ structural = FALSE
    /\ strayEsc = FALSE

\* load() not called yet.
NotLoaded == [called |-> FALSE, ret |-> FALSE, attempted |-> {}, created |-> {}]

\* main() before run_pipeline() is called.
PipelineStart ==
    /\ stage = "extract"
    /\ raw_data = <<>>
    /\ transformed_data = <<>>
    /\ loaded = NotLoaded
    /\ success = "unset"
    /\ exitStatus = -1

NoProbe == [field |-> "none"]
NoAnswer == [given |-> FALSE]

Init ==
    /\ ExtractorStart
    /\ PipelineStart
    /\ probe = NoProbe
    /\ answer = NoAnswer

DriverLive == driver # 0 /\ driver \in live

---------------------------------------------------------------------------
(* Where an exception goes *)

\* The except clause of extract() with close() called at the end of the
\* function and not in a finally clause: a re-raise skips it.
ExtractExceptNoFinally ==
    /\ outcome' = IF selfResults # <<>> THEN "returned" ELSE "raised"
    /\ ret' = IF selfResults # <<>> THEN selfResults ELSE <<>>
    /\ pc' = IF selfResults # <<>> THEN "close" ELSE "done"

\* extract(), lines 434-442: the except clause returns self.results when it
\* is non-empty and re-raises otherwise; the finally clause then closes.
ExtractExcept ==
    /\ outcome' = IF selfResults # <<>> THEN "returned" ELSE "raised"
    /\ ret' = IF selfResults # <<>> THEN selfResults ELSE <<>>
    /\ pc' = "close"

\* Throw without the try/except of the card loop (lines 138-145): the
\* exception of the restart of line 288 reaches extract's except clause.
ThrowUncaught ==
    /\ CASE caller = "extract" ->
              /\ ExtractExcept
              /\ UNCHANGED <<caller, idx>>
         [] caller = "line277" ->
              /\ pc' = "handler"
              /\ caller' = "extract"
              /\ UNCHANGED <<idx, outcome, ret>>
         [] caller = "line286" ->
              /\ pc' = "restart"
              /\ caller' = "line288"
              /\ UNCHANGED <<idx, outcome, ret>>
         [] caller = "line288" ->
              /\ ExtractExcept
              /\ caller' = "extract"
              /\ UNCHANGED idx
    /\ faults' = TRUE
    /\ restartFailed' = (restartFailed \/ caller # "extract")

\* An exception leaves setup_driver, navigate_to_google_maps,
\* search_for_places or scroll_results.  Called by extract() it reaches
\* extract's except clause.  Called by the restart of line 277 it reaches
\* the except clause of _extract_single_place (line 280).  Called by the
\* restart of line 286 it reaches the bare except of line 287, which
\* restarts again (line 288).  Called by that last restart it leaves
\* _extract_single_place and is caught by the card loop (lines 143-145),
\* which goes on with the next card.
Throw ==
    /\ CASE caller = "extract" ->
              /\ ExtractExcept
              /\ UNCHANGED <<caller, idx>>
         [] caller = "line277" ->
              /\ pc' = "handler"
              /\ caller' = "extract"
              /\ UNCHANGED <<idx, outcome, ret>>
         [] caller = "line286" ->
              /\ pc' = "restart"
              /\ caller' = "line288"
              /\ UNCHANGED <<idx, outcome, ret>>
         [] caller = "line288" ->
              /\ pc' = "loop"
              /\ caller' = "extract"
              /\ idx' = idx + 1
              /\ UNCHANGED <<outcome, ret>>
    /\ faults' = TRUE
    /\ restartFailed' = (restartFailed \/ caller # "extract")

---------------------------------------------------------------------------
(* Session start, search and scroll: extract() lines 428-431 and           *)
(* _restart_browser_and_search() lines 183-186                             *)

\* setup_driver: webdriver.Chrome(...) gives a new session, or raises and
\* leaves self.driver as it was.
setup_driver ==
    /\ pc = "setup"
    /\ \/ /\ started' = started + 1
          /\ driver' = started + 1
          /\ live' = live \cup {started + 1}
          /\ view' = "blank"
          /\ panel' = FALSE
          /\ pc' = "navigate"
          /\ UNCHANGED <<caller, idx, outcome, ret, faults, restartFailed>>
       \/ /\ Throw
          /\ UNCHANGED <<started, driver, live, view, panel>>
    /\ UNCHANGED <<cards, place_data, results, selfResults, restarts, closeCalls,
                   closeQuit, yielded, brokenAt>>
    /\ UNCHANGED <<structural, strayEsc, pipeVars, probeVars>>

\* navigate_to_google_maps: driver.get may raise; the Continue button is
\* best effort.
navigate_to_google_maps ==
    /\ pc = "navigate"
    /\ \/ /\ view' = "home"
          /\ pc' = "search"
          /\ UNCHANGED <<caller, idx, outcome, ret, faults, restartFailed>>
       \/ /\ Throw
          /\ UNCHANGED view
    /\ UNCHANGED <<driver, started, live, panel, cards, place_data, results,
                   selfResults, restarts, closeCalls, closeQuit, yielded, brokenAt>>
    /\ UNCHANGED <<structural, strayEsc, pipeVars, probeVars>>

\* _find_search_box: the first of the four selectors whose wait yields an
\* element; 0 for None.
RECURSIVE FirstTrue(_, _)
FirstTrue(sels, i) ==
    IF i > Len(sels) THEN 0
    ELSE IF sels[i] THEN i ELSE FirstTrue(sels, i + 1)

_find_search_box(sels) == FirstTrue(sels, 1)

SearchBoxSelectors == [1..4 -> BOOLEAN]

\* search_for_places: raises when no selector finds the search box, or when
\* typing into it raises; otherwise the results listing shows.
search_for_places ==
    /\ pc = "search"
    /\ \E sels \in SearchBoxSelectors, typed \in BOOLEAN :
          /\ structural' = (structural \/ _find_search_box(sels) = 0)
          /\ IF _find_search_box(sels) # 0 /\ typed
             THEN /\ view' = "listing"
                  /\ pc' = "scroll"
                  /\ UNCHANGED <<caller, idx, outcome, ret, faults, restartFailed>>
             ELSE /\ Throw
                  /\ UNCHANGED view
    /\ UNCHANGED <<driver, started, live, panel, cards, place_data, results,
                   selfResults, restarts, closeCalls, closeQuit, yielded, brokenAt>>
    /\ UNCHANGED <<strayEsc, pipeVars, probeVars>>

\* What follows a completed start/search/scroll sequence: extract() goes on
\* to enumerate the cards; line 277's restart returns place_data (line 279);
\* the restarts of the except clause return None (line 289).
ScrollDone ==
    CASE caller = "extract" ->
           /\ pc' = "enumerate"
           /\ UNCHANGED <<caller, idx, yielded>>
      [] caller = "line277" ->
           /\ pc' = "collect"
           /\ caller' = "extract"
           /\ yielded' = yielded + 1
           /\ UNCHANGED idx
      [] caller \in {"line286", "line288"} ->
           /\ pc' = "loop"
           /\ caller' = "extract"
           /\ idx' = idx + 1
           /\ UNCHANGED yielded

\* scroll_results: raises when the feed container is not found or a scroll
\* script raises.
scroll_results ==
    /\ pc = "scroll"
    /\ \E container \in BOOLEAN, scrolled \in BOOLEAN :
          /\ structural' = (structural \/ ~container)
          /\ IF container /\ scrolled
             THEN /\ ScrollDone
                  /\ UNCHANGED <<outcome, ret, faults, restartFailed>>
             ELSE /\ Throw
                  /\ UNCHANGED yielded
    /\ UNCHANGED <<driver, started, live, view, panel, cards, place_data, results,
                   selfResults, restarts, closeCalls, closeQuit, brokenAt>>
    /\ UNCHANGED <<strayEsc, pipeVars, probeVars>>

---------------------------------------------------------------------------
(* extract_place_cards, lines 110-147 *)

\* Lines 113-128: the primary selector, then the alternatives in order; the
\* first that yields at least one element wins.  counts[i] is the number of
\* elements selector i yields; the result is the number of cards.
RECURSIVE FirstNonZero(_, _)
FirstNonZero(counts, i) ==
    IF i > Len(counts) THEN 0
    ELSE IF counts[i] > 0 THEN counts[i] ELSE FirstNonZero(counts, i + 1)

CardSelectorCounts == [1..5 -> 0..MaxCards]

\* The handles of n cards found in session sess.
Handles(sess, n) == [k \in 1..n |-> [sess |-> sess, n |-> k]]

\* find_elements raising is not caught in extract_place_cards and reaches
\* extract's except clause.  No card at all: return [] (line 132).
extract_place_cards ==
    /\ pc = "enumerate"
    /\ \/ \E counts \in CardSelectorCounts :
            /\ cards' = Handles(driver, FirstNonZero(counts, 1))
            /\ IF FirstNonZero(counts, 1) = 0
               THEN /\ outcome' = "returned"
                    /\ ret' = <<>>
                    /\ pc' = "close"
               ELSE /\ pc' = "loop"
                    /\ UNCHANGED <<outcome, ret>>
            /\ UNCHANGED <<caller, idx, faults, restartFailed>>
       \/ /\ Throw
          /\ UNCHANGED cards
    /\ UNCHANGED <<driver, started, live, view, panel, place_data, results,
                   selfResults, restarts, closeCalls, closeQuit, yielded, brokenAt>>
    /\ UNCHANGED <<structural, strayEsc, pipeVars, probeVars>>

\* Line 137: the next card of the list enumerated at line 113, or, the list
\* exhausted, return results (line 147).
CardLoop ==
    /\ pc = "loop"
    /\ IF idx < Len(cards)
       THEN /\ pc' = "open"
            /\ place_data' = <<>>
            /\ UNCHANGED <<outcome, ret>>
       ELSE /\ outcome' = "returned"
            /\ ret' = results
            /\ pc' = "close"
            /\ UNCHANGED place_data
    /\ UNCHANGED <<caller, driver, started, live, view, panel, cards, idx, results,
                   selfResults, restarts, closeCalls, closeQuit, yielded, brokenAt,
                   faults>>
    /\ UNCHANGED <<restartFailed, structural, strayEsc, pipeVars, probeVars>>

\* The card the loop is at.
Card == cards[idx + 1]

\* A handle can be used on the session it came from, while that session is
\* the one self.driver holds and is live.
HandleValid(card) == card.sess = driver /\ driver \in live

\* Lines 141-142 assigning the record where they should append it.
CollectLast(list, pd) == pd

\* Lines 140-142: a truthy place_data is appended to both lists.
CollectInto(list, pd) == IF pd # <<>> THEN Append(list, pd[1]) ELSE list

Collect ==
    /\ pc = "collect"
    /\ results' = CollectInto(results, place_data)
    /\ selfResults' = CollectInto(selfResults, place_data)
    /\ idx' = idx + 1
    /\ pc' = "loop"
    /\ UNCHANGED <<caller, driver, started, live, view, panel, cards, place_data,
                   outcome, ret, restarts, closeCalls, closeQuit, yielded, brokenAt,
                   faults>>
    /\ UNCHANGED <<restartFailed, structural, strayEsc, pipeVars, probeVars>>

---------------------------------------------------------------------------
(* _extract_single_place, lines 251-289 *)

\* Lines 255-258: scroll the card into view and click it.  Raises when the
\* handle is not valid; may raise anyway.
OpenCard ==
    /\ pc = "open"
    /\ \/ /\ HandleValid(Card)
          /\ view' = "detail"
          /\ pc' = "fields"
          /\ UNCHANGED faults
       \/ /\ pc' = "handler"
          /\ faults' = (faults \/ HandleValid(Card))
          /\ UNCHANGED view
    /\ UNCHANGED <<panel, caller, driver, started, live, cards, idx, place_data, results,
                   selfResults, outcome, ret, restarts, closeCalls, closeQuit,
                   yielded, brokenAt>>
    /\ UNCHANGED <<restartFailed, structural, strayEsc, pipeVars, probeVars>>

\* Lines 261-268: the four fields of the detail view.
PlaceData(page, open) ==
    [name |-> _extract_name(page),
     address |-> _extract_address(page),
     rating |-> _extract_rating(page),
     coordinates |-> _extract_coordinates(page, open).value]

ExtractFields ==
    /\ pc = "fields"
    /\ \E page \in Pages :
          IF _extract_coordinates(page, panel).raised
          THEN /\ pc' = "handler"
               /\ faults' = TRUE
               /\ UNCHANGED <<place_data, panel, strayEsc>>
          ELSE /\ place_data' = <<PlaceData(page, panel)>>
               /\ panel' = _extract_coordinates(page, panel).panel
               /\ strayEsc' = (strayEsc \/ _extract_coordinates(page, panel).stray)
               /\ pc' = "back"
               /\ UNCHANGED faults
    /\ UNCHANGED <<caller, driver, started, live, view, cards, idx, results,
                   selfResults, outcome, ret, restarts, closeCalls, closeQuit,
                   yielded, brokenAt>>
    /\ UNCHANGED <<restartFailed, structural, pipeVars, probeVars>>

\* _go_back_to_list, lines 149-174: the five back-button selectors in
\* order, then driver.back().  btn[i]: selector i is found and clicked;
\* bb: driver.back() does not raise.
BackButtonSelectors == [1..5 -> BOOLEAN]

\* _go_back_to_list without lines 168-174: False when no button is clicked.
_go_back_to_list_buttons_only(btn, bb) ==
    IF FirstTrue(btn, 1) # 0
    THEN [success |-> TRUE, via |-> "button", at |-> FirstTrue(btn, 1)]
    ELSE [success |-> FALSE, via |-> "none", at |-> 0]

\* at: the action that succeeded: 1..5 for a back button, 6 for
\* driver.back(), 0 for none.
_go_back_to_list(btn, bb) ==
    IF FirstTrue(btn, 1) # 0
    THEN [success |-> TRUE, via |-> "button", at |-> FirstTrue(btn, 1)]
    ELSE IF bb THEN [success |-> TRUE, via |-> "back", at |-> 6]
    ELSE [success |-> FALSE, via |-> "none", at |-> 0]

\* What the driver can answer: nothing succeeds on a session that was quit;
\* a back button exists only on a detail view.
CanAnswer(btn, bb) ==
    /\ (\E i \in 1..5 : btn[i]) => (DriverLive /\ view = "detail")
    /\ bb => DriverLive

\* The browser's history: the page before the one shown.
Previous(v) ==
    CASE v = "detail" -> "listing"
      [] v = "listing" -> "home"
      [] OTHER -> "blank"

ViewAfterBack(r) ==
    CASE r.via = "button" -> "listing"
      [] r.via = "back" -> Previous(view)
      [] OTHER -> view

\* Lines 273-279: back to the list, or restart; then return place_data.
GoBack ==
    /\ pc = "back"
    /\ \E btn \in BackButtonSelectors, bb \in BOOLEAN :
          /\ CanAnswer(btn, bb)
          /\ LET r == _go_back_to_list(btn, bb)
             IN  /\ view' = ViewAfterBack(r)
                 /\ IF r.success
                    THEN /\ pc' = "collect"
                         /\ yielded' = yielded + 1
                         /\ UNCHANGED <<caller, brokenAt>>
                    ELSE /\ pc' = "restart"
                         /\ caller' = "line277"
                         /\ brokenAt' = idx + 1
                         /\ UNCHANGED yielded
    /\ UNCHANGED <<driver, started, live, panel, cards, idx, place_data, results,
                   selfResults, outcome, ret, restarts, closeCalls, closeQuit, faults>>
    /\ UNCHANGED <<restartFailed, structural, strayEsc, pipeVars, probeVars>>

\* Lines 280-289: the except clause: back to the list, or restart; then
\* return None.
Handler ==
    /\ pc = "handler"
    /\ \E btn \in BackButtonSelectors, bb \in BOOLEAN :
          /\ CanAnswer(btn, bb)
          /\ LET r == _go_back_to_list(btn, bb)
             IN  /\ view' = ViewAfterBack(r)
                 /\ IF r.success
                    THEN /\ pc' = "loop"
                         /\ idx' = idx + 1
                         /\ UNCHANGED caller
                    ELSE /\ pc' = "restart"
                         /\ caller' = "line286"
                         /\ UNCHANGED idx
    /\ UNCHANGED <<driver, started, live, panel, cards, place_data, results,
                   selfResults, outcome, ret, restarts, closeCalls, closeQuit,
                   yielded, brokenAt, faults>>
    /\ UNCHANGED <<restartFailed, structural, strayEsc, pipeVars, probeVars>>

\* _restart_browser_and_search without the quit of lines 178-181.
_restart_without_quit ==
    /\ pc = "restart"
    /\ restarts' = restarts + 1
    /\ pc' = "setup"
    /\ UNCHANGED <<caller, driver, started, live, view, panel, cards, idx,
                   place_data, results, selfResults, outcome, ret, closeCalls,
                   closeQuit, yielded, brokenAt, faults>>
    /\ UNCHANGED <<restartFailed, structural, strayEsc, pipeVars, probeVars>>

\* _restart_browser_and_search, lines 176-181: quit the session, whatever
\* quit() does; lines 183-186 follow from "setup".
_restart_browser_and_search ==
    /\ pc = "restart"
    /\ restarts' = restarts + 1
    /\ live' = live \ {driver}
    /\ pc' = "setup"
    /\ UNCHANGED <<caller, driver, started, view, panel, cards, idx, place_data,
                   results, selfResults, outcome, ret, closeCalls, closeQuit,
                   yielded, brokenAt, faults>>
    /\ UNCHANGED <<restartFailed, structural, strayEsc, pipeVars, probeVars>>

---------------------------------------------------------------------------
(* close(), lines 419-423, called by extract's finally clause *)

close ==
    /\ pc = "close"
    /\ closeCalls' = closeCalls + 1
    /\ IF driver # 0
       THEN /\ closeQuit' = IF driver \in live THEN "live" ELSE "dead"
            /\ live' = live \ {driver}
       ELSE UNCHANGED <<closeQuit, live>>
    /\ pc' = "done"
    /\ UNCHANGED <<caller, driver, started, view, panel, cards, idx, place_data,
                   results, selfResults, outcome, ret, restarts, yielded, brokenAt,
                   faults>>
    /\ UNCHANGED <<restartFailed, structural, strayEsc, pipeVars, probeVars>>

---------------------------------------------------------------------------
(* utils/transform.py: DataTransformer                                     *)
(*                                                                         *)
(* A DataFrame is the sequence of its rows; pd.DataFrame() is <<>>.  A     *)
(* cell is Absent (None/NaN) or Present(v).  A float is the exact decimal  *)
(* m * 10^-e with no trailing zero, so that "4.50" and "4.5" parse to the  *)
(* same value and a text never passes for a number.                        *)

\* Longest raw_data list handed to clean_and_transform on its own.
MaxRecords == 2

Absent == <<>>
Present(v) == <<v>>

DigitValue(c) ==
    CASE c = "0" -> 0 [] c = "1" -> 1 [] c = "2" -> 2 [] c = "3" -> 3
      [] c = "4" -> 4 [] c = "5" -> 5 [] c = "6" -> 6 [] c = "7" -> 7
      [] c = "8" -> 8 [] c = "9" -> 9

\* The number a string of digits denotes.
RECURSIVE DigitsValue(_)
DigitsValue(s) ==
    IF s = <<>> THEN 0
    ELSE 10 * DigitsValue(SubSeq(s, 1, Len(s) - 1)) + DigitValue(s[Len(s)])

RECURSIVE Normal(_)
Normal(f) ==
    IF f.e > 0 /\ f.m % 10 = 0 THEN Normal([m |-> f.m \div 10, e |-> f.e - 1])
    ELSE f

\* Python's float(str) on texts of digits, sign, point and other
\* characters: surrounding whitespace is dropped; an optional sign, then
\* digits with an optional point, at least one digit in all.  <<>> stands
\* for ValueError.  (Exponents, "inf" and "nan" do not occur in the texts
\* the model draws.)
PyFloat(t) ==
    LET s == Strip(t)
        a == IF s # <<>> /\ s[1] \in {"+", "-"} THEN 2 ELSE 1
        b == DigitsEnd(s, a)
        dot == b <= Len(s) /\ s[b] = "."
        c == IF dot THEN DigitsEnd(s, b + 1) ELSE b
        ip == SubSeq(s, a, b - 1)
        fp == IF dot THEN SubSeq(s, b + 1, c - 1) ELSE <<>>
    IN  IF c = Len(s) + 1 /\ Len(ip) + Len(fp) > 0
        THEN <<Normal([m |-> IF s[1] = "-" THEN 0 - DigitsValue(ip \o fp)
                             ELSE DigitsValue(ip \o fp),
                       e |-> Len(fp)])>>
        ELSE <<>>

RECURSIVE FirstDigit(_, _)
FirstDigit(s, i) ==
    IF i > Len(s) THEN 0
    ELSE IF s[i] \in Digit THEN i ELSE FirstDigit(s, i + 1)

\* re.search(r'(\d+(\.\d+)?)', s).group(1); <<>> when there is no match.
NumberSearch(s) ==
    LET i == FirstDigit(s, 1)
        b == DigitsEnd(s, i)
        c == IF b <= Len(s) /\ s[b] = "." THEN DigitsEnd(s, b + 1) ELSE b
    IN  IF i = 0 THEN <<>>
        ELSE SubSeq(s, i, (IF c > b + 1 THEN c ELSE b) - 1)

RECURSIVE FirstOf(_, _, _)
FirstOf(s, ch, i) ==
    IF i > Len(s) THEN 0
    ELSE IF s[i] = ch THEN i ELSE FirstOf(s, ch, i + 1)

\* str.split(ch)
RECURSIVE Split(_, _)
Split(s, ch) ==
    LET i == FirstOf(s, ch, 1)
    IN  IF i = 0 THEN <<s>>
        ELSE <<SubSeq(s, 1, i - 1)>> \o Split(SubSeq(s, i + 1, Len(s)), ch)

\* _clean_names without line 42: the name is stripped and kept.
_clean_names_keep(name) == Present(Strip(name))

\* _clean_names on one row: strip, then "No name" becomes None.
\* (Series.replace(x, None) with the None given explicitly: pandas 1.4 and
\* later put None in place of x.)
_clean_names(name) ==
    IF Strip(name) = NoName THEN Absent ELSE Present(Strip(name))

\* _extract_numeric_rating on one row: the first number in a rating that
\* is neither empty nor the sentinel.
_extract_numeric_rating(rating) ==
    IF rating # <<>> /\ rating # NoRating /\ NumberSearch(rating) # <<>>
    THEN PyFloat(NumberSearch(rating))
    ELSE Absent

\* _split_coordinates on one row.  Line 74 raises unless split gives
\* exactly two parts; line 75 assigns the latitude before line 76 converts
\* the longitude; the except clause logs a warning and leaves the cells as
\* they are.
_split_coordinates(coord) ==
    LET parts == Split(coord, ",")
    IN  IF coord = <<>> \/ coord = NoCoordinates
        THEN [latitude |-> Absent, longitude |-> Absent, warned |-> FALSE]
        ELSE IF Len(parts) # 2 \/ PyFloat(parts[1]) = <<>>
        THEN [latitude |-> Absent, longitude |-> Absent, warned |-> TRUE]
        ELSE IF PyFloat(parts[2]) = <<>>
        THEN [latitude |-> PyFloat(parts[1]), longitude |-> Absent, warned |-> TRUE]
        ELSE [latitude |-> PyFloat(parts[1]), longitude |-> PyFloat(parts[2]),
              warned |-> FALSE]

\* One row of the DataFrame clean_and_transform returns.
Row(r, now) ==
    [name |-> _clean_names(r.name),
     address |-> r.address,
     rating |-> r.rating,
     coordinates |-> r.coordinates,
     rating_numeric |-> _extract_numeric_rating(r.rating),
     latitude |-> _split_coordinates(r.coordinates).latitude,
     longitude |-> _split_coordinates(r.coordinates).longitude,
     warned |-> _split_coordinates(r.coordinates).warned,
     extraction_timestamp |-> now]

\* clean_and_transform: an empty DataFrame for no data, else one row per
\* raw record, in order.
clean_and_transform(raw, now) ==
    IF raw = <<>> THEN <<>>
    ELSE [i \in 1..Len(raw) |-> Row(raw[i], now)]

\* The readings of pd.Timestamp.now().
Clock == {"t1", "t2"}

---------------------------------------------------------------------------
(* utils/load.py: DataLoader *)

\* How a save ends: "ok"; os.makedirs raised ("mkdir"); the directory is
\* there and the write raised ("write").
WriteOutcomes == {"ok", "mkdir", "write"}

\* What a save leaves on disk.
Leaves(fmt, how) ==
    CASE how = "ok" -> {"dir", fmt}
      [] how = "write" -> {"dir"}
      [] OTHER -> {}

\* save_to_csv, save_to_json: True, or False when anything raised.
save_to_csv(data, how) == [ok |-> how = "ok", created |-> Leaves("csv", how)]
save_to_json(data, how) == [ok |-> how = "ok", created |-> Leaves("json", how)]

\* load without the test of line 42.
load_unguarded(data, csv, json) ==
    [called |-> TRUE,
     ret |-> save_to_csv(data, csv).ok /\ save_to_json(data, json).ok,
     attempted |-> {"csv", "json"},
     created |-> save_to_csv(data, csv).created \cup save_to_json(data, json).created]

\* load with the two saves joined by "and" in one expression: the JSON
\* write is skipped when the CSV write failed.
load_short_circuit(data, csv, json) ==
    IF data = <<>>
    THEN [called |-> TRUE, ret |-> FALSE, attempted |-> {}, created |-> {}]
    ELSE IF ~save_to_csv(data, csv).ok
    THEN [called |-> TRUE, ret |-> FALSE, attempted |-> {"csv"},
          created |-> save_to_csv(data, csv).created]
    ELSE [called |-> TRUE, ret |-> save_to_json(data, json).ok,
          attempted |-> {"csv", "json"},
          created |-> save_to_csv(data, csv).created
                          \cup save_to_json(data, json).created]

\* load: False at once for an empty DataFrame; otherwise both saves are
\* called, one after the other, and the result is their conjunction.
load(data, csv, json) ==
    IF data = <<>>
    THEN [called |-> TRUE, ret |-> FALSE, attempted |-> {}, created |-> {}]
    ELSE [called |-> TRUE,
          ret |-> save_to_csv(data, csv).ok /\ save_to_json(data, json).ok,
          attempted |-> {"csv", "json"},
          created |-> save_to_csv(data, csv).created
                          \cup save_to_json(data, json).created]

---------------------------------------------------------------------------
(* main.py: run_pipeline() and main() *)

\* Lines 79-81 and 93-95: extract() returned the raw records, or raised and
\* the except clause returns False.
PipelineExtract ==
    /\ stage = "extract"
    /\ pc = "done"
    /\ IF outcome = "returned"
       THEN /\ raw_data' = ret
            /\ stage' = "transform"
            /\ UNCHANGED success
       ELSE /\ success' = "False"
            /\ stage' = "exit"
            /\ UNCHANGED raw_data
    /\ UNCHANGED <<transformed_data, loaded, exitStatus, extractorVars, probeVars>>

\* Lines 85-87.
PipelineTransform ==
    /\ stage = "transform"
    /\ \E now \in Clock : transformed_data' = clean_and_transform(raw_data, now)
    /\ stage' = "load"
    /\ UNCHANGED <<raw_data, loaded, success, exitStatus, extractorVars, probeVars>>

\* Lines 90-91: load is called and what it returns is dropped; the try
\* block ends there and the function ends without a return statement, so
\* the caller gets None.
PipelineLoad ==
    /\ stage = "load"
    /\ \E csv \in WriteOutcomes, json \in WriteOutcomes :
          loaded' = load(transformed_data, csv, json)
    /\ success' = "None"
    /\ stage' = "exit"
    /\ UNCHANGED <<raw_data, transformed_data, exitStatus, extractorVars, probeVars>>

\* Python's truth value of what run_pipeline returned.
Truthy(v) == v = "True"

\* main, lines 103-104: sys.exit(0 if success else 1).
main ==
    /\ stage = "exit"
    /\ exitStatus' = IF Truthy(success) THEN 0 ELSE 1
    /\ stage' = "exited"
    /\ UNCHANGED <<raw_data, transformed_data, loaded, success, extractorVars,
                   probeVars>>

Next ==
    \/ setup_driver
    \/ navigate_to_google_maps
    \/ search_for_places
    \/ scroll_results
    \/ extract_place_cards
    \/ CardLoop
    \/ OpenCard
    \/ ExtractFields
    \/ GoBack
    \/ Handler
    \/ _restart_browser_and_search
    \/ Collect
    \/ close
    \/ PipelineExtract
    \/ PipelineTransform
    \/ PipelineLoad
    \/ main

Spec == Init /\ [][Next]_vars

\* The statements of extract().
ExtractorNext ==
    \/ setup_driver
    \/ navigate_to_google_maps
    \/ search_for_places
    \/ scroll_results
    \/ extract_place_cards
    \/ CardLoop
    \/ OpenCard
    \/ ExtractFields
    \/ GoBack
    \/ Handler
    \/ _restart_browser_and_search
    \/ Collect
    \/ close

\* extract() as a sequential program: while it has a statement left to
\* execute, one is executed (every driver call returns or raises: the waits
\* have timeouts).
FairSpec == Spec /\ WF_vars(ExtractorNext)

---------------------------------------------------------------------------
(* The transform and load stages on their own: clean_and_transform and     *)
(* load applied to raw record lists of up to MaxRecords records.  The raw  *)
(* records are ones extract() can return: stripped non-empty texts or the  *)
(* sentinels; coordinates are a pair of decimals (url, share link, script) *)
(* or the two meta contents joined by a comma, which are free text.        *)

RawRecord(n, a, r, c) == [name |-> n, address |-> a, rating |-> r, coordinates |-> c]

RawRecords ==
    {RawRecord(NoName, NoAddress, NoRating, NoCoordinates),
     RawRecord(<<"A">>, <<"S","t">>, <<"4",".","5"," ","s","t","a","r","s">>,
               <<"-","6",".","9",",","1","1","0",".","4">>),
     RawRecord(<<"B">>, NoAddress, <<"N","e","w">>,
               <<"a","b","c",",","1","1","0",".","4">>),
     RawRecord(<<"A">>, <<"S","t">>, <<"5">>,
               <<"1","1","0",".","4",",","a","b","c">>),
     RawRecord(NoName, <<"S","t">>, <<"4",".","5","0">>,
               <<"1",",","5",",","1","1","0",".","4">>)}

RawInputs == UNION {[1..n -> RawRecords] : n \in 0..MaxRecords}

InitTransform ==
    /\ ExtractorStart
    /\ stage = "transform"
    /\ raw_data \in RawInputs
    /\ transformed_data = <<>>
    /\ loaded = NotLoaded
    /\ success = "unset"
    /\ exitStatus = -1
    /\ probe = NoProbe
    /\ answer = NoAnswer

NextTransform ==
    \/ PipelineTransform
    \/ PipelineLoad
    \/ main

SpecTransform == InitTransform /\ [][NextTransform]_vars

---------------------------------------------------------------------------
(* The field resolvers on their own: each is applied to detail views that  *)
(* give every combination of driver answers to its selectors.              *)

\* What one selector lookup of a resolver can give.
LookupOutcomes ==
    {Raise, Found(<<" ">>), Found(<<" ","A"," ">>), Found(<<"B">>)}

\* The same with an element whose text is empty before it is stripped.
NameOutcomes == LookupOutcomes \cup {Found(<<>>)}

UrlOutcomes ==
    {Raise, Found(<<"/","p","/">>),
     Found(<<"/","@","-","6",".","9",",","1","1","0",".","4","/">>)}

ShareBtnOutcomes == {NoShareBtn, <<FALSE, TRUE, FALSE, FALSE, FALSE>>}

\* A share-link lookup: it raises, or the value holds no pattern, or the
\* pattern !3d..!4d..
LinkOutcomes ==
    {Raise, Found(<<"/","p">>),
     Found(<<"!","3","d","1",".","2","!","4","d","3",".","4">>)}

\* A value that holds the pattern @..,.. only, and one that holds both.
AtLink == Found(<<"@","5",".","6",",","7",".","8">>)
BothLink ==
    Found(<<"@","5",".","6",",","7",".","8","!","3","d","1",".","2","!","4","d","3",".","4">>)

\* The answers to the four share-link selectors.
LinkSequences ==
    [1..4 -> LinkOutcomes]
        \cup {<<Raise, AtLink, Found(<<"!","3","d","1",".","2","!","4","d","3",".","4">>), Raise>>,
              <<Found(<<"/","p">>), Raise, Raise, AtLink>>,
              <<Raise, BothLink, AtLink, Raise>>}

ScriptOutcomes ==
    {NoScripts,
     [ok |-> TRUE, items |-> <<Found(<<"v","a","r">>)>>],
     [ok |-> TRUE,
      items |-> <<Raise,
                  Found(<<"\"","l","a","t","i","t","u","d","e","\"",":","1",".","0",
                          ",","\"","l","o","n","g","i","t","u","d","e","\"",":",
                          "2",".","0">>)>>]}

LatMeta(t) ==
    [ok |-> TRUE,
     items |-> <<[ok |-> TRUE, isLat |-> FALSE, text |-> <<"x">>],
                 [ok |-> TRUE, isLat |-> TRUE, text |-> t]>>]

\* The meta tags and the og:longitude lookup.
MetaOutcomes ==
    {[metas |-> NoMetas, lngMeta |-> Raise],
     [metas |-> LatMeta(<<"9",".","1">>), lngMeta |-> Found(<<"8",".","2">>)],
     [metas |-> LatMeta(<<"9",".","1">>), lngMeta |-> Raise],
     [metas |-> LatMeta(<<>>), lngMeta |-> Found(<<"8",".","2">>)]}

NameProbes ==
    {[field |-> "name", open |-> FALSE, page |-> [PageBare EXCEPT !.name = outs]] :
        outs \in [1..3 -> NameOutcomes]}

AddressProbes ==
    {[field |-> "address", open |-> FALSE, page |-> [PageBare EXCEPT !.address = outs]] :
        outs \in [1..6 -> LookupOutcomes]}

RatingProbes ==
    {[field |-> "rating", open |-> FALSE, page |-> [PageBare EXCEPT !.rating = outs]] :
        outs \in [1..5 -> LookupOutcomes]}

CoordinateProbes ==
    {[field |-> "coordinates", open |-> o,
      page |-> [PageBare EXCEPT !.url = u, !.shareBtn = b, !.shareLink = l,
                                !.escOk = e, !.scripts = sc, !.metas = mt.metas,
                                !.lngMeta = mt.lngMeta]] :
        o \in BOOLEAN, u \in UrlOutcomes, b \in ShareBtnOutcomes,
        l \in LinkSequences, e \in BOOLEAN, sc \in ScriptOutcomes,
        mt \in MetaOutcomes}

\* Every combination of answers to the five back-button selectors and to
\* driver.back().
BackProbes ==
    {[field |-> "back", btn |-> btn, bb |-> bb] :
        btn \in BackButtonSelectors, bb \in BOOLEAN}

InitProbe ==
    /\ ExtractorStart
    /\ PipelineStart
    /\ probe \in NameProbes \cup AddressProbes \cup RatingProbes
                   \cup CoordinateProbes \cup BackProbes
    /\ answer = NoAnswer

\* What a resolver that returns a text hands back.
Text(t) == [given |-> TRUE, raised |-> FALSE, value |-> t]

ProbeName ==
    /\ probe.field = "name"
    /\ ~answer.given
    /\ answer' = Text(_extract_name(probe.page))
    /\ UNCHANGED <<probe, extractorVars, pipeVars>>

ProbeAddress ==
    /\ probe.field = "address"
    /\ ~answer.given
    /\ answer' = Text(_extract_address(probe.page))
    /\ UNCHANGED <<probe, extractorVars, pipeVars>>

ProbeRating ==
    /\ probe.field = "rating"
    /\ ~answer.given
    /\ answer' = Text(_extract_rating(probe.page))
    /\ UNCHANGED <<probe, extractorVars, pipeVars>>

ProbeCoordinates ==
    /\ probe.field = "coordinates"
    /\ ~answer.given
    /\ answer' = [given |-> TRUE,
                  coords |-> _extract_coordinates(probe.page, probe.open)]
    /\ UNCHANGED <<probe, extractorVars, pipeVars>>

ProbeBack ==
    /\ probe.field = "back"
    /\ ~answer.given
    /\ answer' = [given |-> TRUE, raised |-> FALSE,
                  back |-> _go_back_to_list(probe.btn, probe.bb)]
    /\ UNCHANGED <<probe, extractorVars, pipeVars>>

NextProbe ==
    \/ ProbeBack
    \/ ProbeName
    \/ ProbeAddress
    \/ ProbeRating
    \/ ProbeCoordinates

SpecProbe == InitProbe /\ [][NextProbe]_vars

---------------------------------------------------------------------------
(* Properties *)

\* A record with the four raw fields, none of them empty or blank.
WellFormed(r) ==
    /\ DOMAIN r = Keys
    /\ \A k \in Keys : r[k] # <<>> /\ Strip(r[k]) # <<>>

\* C1: when extract() has met exceptions in the card loop after collecting
\* K of the enumerated cards, it returns (it does not raise) exactly the K
\* records that were collected, each with its four raw fields.
C1_PartialResultsReturned ==
    (pc = "done" /\ cards # <<>>) =>
        /\ outcome = "returned"
        /\ Len(ret) = yielded
        /\ ret = selfResults
        /\ \A i \in 1..Len(ret) : WellFormed(ret[i])

\* A run that collected one card and lost another to an exception.
C1_Witness ==
    /\ pc = "done"
    /\ outcome = "returned"
    /\ Len(cards) = 2
    /\ Len(ret) = 1
    /\ yielded = 1

\* C2: close() is called exactly once in a run of extract(), as its last
\* step, whether extract() returns or raises.
C2_CloseExactlyOnceLast ==
    /\ closeCalls <= 1
    /\ (pc = "done") <=> (closeCalls = 1)

\* extract() re-raised a failure met before any card was collected, in a
\* session that had been started, and close() was called.
C2_Witness ==
    /\ pc = "done"
    /\ outcome = "raised"
    /\ closeCalls = 1
    /\ started >= 1

\* C3: close() on a session that was already quit (by the teardown of a
\* restart) issues no further quit().
C3_CloseIssuesNoSecondQuit == closeQuit # "dead"

\* C4: every record in the result lists has the four keys, each value a
\* non-empty, non-blank text (an extracted one or the field's sentinel).
C4_RecordsWellFormed ==
    /\ \A i \in 1..Len(selfResults) : WellFormed(selfResults[i])
    /\ \A i \in 1..Len(results) : WellFormed(results[i])
    /\ \A i \in 1..Len(ret) : WellFormed(ret[i])

\* A record was collected from a view whose name elements are all blank:
\* the name is the sentinel, the other fields are extracted texts.
C4_Witness ==
    \E i \in 1..Len(selfResults) :
        /\ selfResults[i].name = NoName
        /\ selfResults[i].address = <<"S","t">>
        /\ selfResults[i].rating = <<"5">>

\* A text Python's float() reads as a number: sign, digits, fraction.
IsFloatText(t) ==
    LET a == IF t # <<>> /\ t[1] \in {"-", "+"} THEN 2 ELSE 1
        b == DigitsEnd(t, a)
        c == IF b <= Len(t) /\ t[b] = "." THEN DigitsEnd(t, b + 1) ELSE b
    IN  /\ c = Len(t) + 1
        /\ (b > a \/ c > b + 1)

\* "<float>,<float>"
IsFloatPair(t) ==
    /\ Cardinality({i \in 1..Len(t) : t[i] = ","}) = 1
    /\ LET i == CHOOSE j \in 1..Len(t) : t[j] = ","
       IN  /\ IsFloatText(SubSeq(t, 1, i - 1))
           /\ IsFloatText(SubSeq(t, i + 1, Len(t)))

\* C5: the coordinates of every record are the sentinel or "<float>,<float>".
C5_CoordinatesSentinelOrFloatPair ==
    \A i \in 1..Len(selfResults) :
        \/ selfResults[i].coordinates = NoCoordinates
        \/ IsFloatPair(selfResults[i].coordinates)

\* C6: resolving the fields of an opened card never aborts the card: it
\* always ends with a record and goes on to the return to the list.
C6_FieldFailureNeverAbortsCard ==
    [][pc = "fields" => (pc' = "back" /\ place_data' # <<>>)]_vars

\* C7: in a run whose only failures are failed returns to the list, a failed
\* return at a card that is not the last one does not lose every later
\* card: more records are collected than the cards up to the failed one.
C7_LaterCardsStillCollected ==
    (pc = "done" /\ ~faults /\ brokenAt >= 1 /\ brokenAt < Len(cards)) =>
        Len(ret) > brokenAt

\* C8: after a restart, a card is only opened through a handle of the
\* session that is active now.
C8_NoStaleHandleAfterRestart ==
    (pc = "open" /\ restarts > 0) => HandleValid(Card)

\* C9: when the return to the list failed after a card's fields were
\* extracted, the card's record is in the result set when the loop goes on,
\* whatever the restart did.
C9_RecordKeptAfterFailedReturn ==
    [][(brokenAt = idx + 1 /\ pc # "loop" /\ pc' = "loop")
          => (selfResults' = Append(selfResults, place_data[1]))]_vars

\* C10: a run performs at most max_retries restarts.
C10_RestartsCapped == restarts <= max_retries

\* C11: the process exit status is 0 whenever the pipeline (extract,
\* transform, load) completed without raising, and non-zero exactly when the
\* pipeline raised an error that run_pipeline did not recover from.
C11_ExitStatusReflectsOutcome ==
    stage = "exited" => (exitStatus = 0 <=> outcome # "raised")

\* C12: a failed return to the list is not a run failure when the restart
\* that follows succeeds; when an exception leaves the restart (driver
\* start, navigation, search or scroll raised in it), the run fails:
\* extract() ends by raising.
C12_RestartFailurePropagates ==
    pc = "done" =>
        /\ restartFailed => outcome = "raised"
        /\ (brokenAt >= 1 /\ ~restartFailed) => outcome = "returned"

\* C13: when no search-box selector finds an element, or the results
\* container is not found, in the first search or in the search of a
\* restart, the failure leaves the card loop and reaches extract(), which
\* ends the extraction there, handing back the records collected so far.
C13_StructuralFailurePropagates ==
    [][(~structural /\ structural') =>
           /\ pc' = "close"
           /\ outcome' = "returned" => ret' = selfResults]_vars

\* The stages run_pipeline has passed.
Transformed == stage \in {"load", "exit", "exited"}

\* C14: for an empty raw record list clean_and_transform returns an empty
\* record set, and load on it returns False without attempting a write and
\* without creating a file or a directory.
C14_EmptyInEmptyOutNoWrite ==
    /\ (Transformed /\ raw_data = <<>>) => transformed_data = <<>>
    /\ (loaded.called /\ raw_data = <<>>) =>
           /\ loaded.ret = FALSE
           /\ loaded.attempted = {}
           /\ loaded.created = {}

C14_Witness ==
    /\ raw_data = <<>>
    /\ loaded.called
    /\ stage = "exited"

\* A coordinate text that is not two comma-separated numbers.
Malformed(coord) ==
    \/ Len(Split(coord, ",")) # 2
    \/ \E k \in 1..2 : PyFloat(Split(coord, ",")[k]) = <<>>

\* C15: in every row, latitude and longitude are both absent when the
\* coordinate text is malformed or has a non-numeric part on either side;
\* they are never one present and one absent; the parse failure is logged.
C15_LatLngBothOrNeither ==
    Transformed =>
        \A i \in 1..Len(transformed_data) :
            LET row == transformed_data[i]
            IN  /\ (row.latitude = Absent) <=> (row.longitude = Absent)
                /\ (row.coordinates # NoCoordinates /\ Malformed(row.coordinates)) =>
                       /\ row.latitude = Absent
                       /\ row.longitude = Absent
                       /\ row.warned

\* C16: for a non-empty record set load attempts the CSV and the JSON
\* write, whatever the other's outcome, and returns True exactly when both
\* files were written.
C16_BothWritesAttempted ==
    (loaded.called /\ transformed_data # <<>>) =>
        /\ loaded.attempted = {"csv", "json"}
        /\ loaded.ret <=> ({"csv", "json"} \subseteq loaded.created)

\* The CSV write failed and the JSON file is there all the same.
C16_Witness ==
    /\ loaded.called
    /\ transformed_data # <<>>
    /\ ~loaded.ret
    /\ "csv" \notin loaded.created
    /\ "json" \in loaded.created

\* A numeric cell holds nothing or a number.
IsNumberCell(c) ==
    \/ c = Absent
    \/ /\ Len(c) = 1
       /\ DOMAIN c[1] = {"m", "e"}
       /\ c[1].m \in Int
       /\ c[1].e \in Nat

\* C17: sentinels are absent values after the transform: "No name" gives an
\* absent name, "No rating" an absent rating_numeric, "No coordinates"
\* absent latitude and longitude; numeric cells hold numbers only; the
\* output has one row per raw record, in the input's order.
C17_SentinelsAbsent ==
    Transformed =>
        /\ Len(transformed_data) = Len(raw_data)
        /\ \A i \in 1..Len(raw_data) :
              LET raw == raw_data[i]
                  row == transformed_data[i]
              IN  /\ raw.name = NoName => row.name = Absent
                  /\ raw.name # NoName => row.name = Present(raw.name)
                  /\ raw.rating = NoRating => row.rating_numeric = Absent
                  /\ raw.coordinates = NoCoordinates =>
                         (row.latitude = Absent /\ row.longitude = Absent)
                  /\ IsNumberCell(row.rating_numeric)
                  /\ IsNumberCell(row.latitude)
                  /\ IsNumberCell(row.longitude)
                  /\ row.address = raw.address
                  /\ row.rating = raw.rating
                  /\ row.coordinates = raw.coordinates

\* Two rows: all sentinels first, then "4.5 stars" parsed to 4.5.
C17_Witness ==
    /\ Transformed
    /\ Len(raw_data) = 2
    /\ raw_data[1] = RawRecord(NoName, NoAddress, NoRating, NoCoordinates)
    /\ transformed_data[1].name = Absent
    /\ transformed_data[2].name = Present(<<"A">>)
    /\ transformed_data[2].rating_numeric = Present([m |-> 45, e |-> 1])
    /\ transformed_data[2].latitude = Present([m |-> 0 - 69, e |-> 1])
    /\ transformed_data[2].longitude = Present([m |-> 1104, e |-> 1])

\* The first selector, in list order, whose lookup gives a text that is not
\* blank; 0 when there is none.
FirstGood(outs) ==
    LET good == {i \in 1..Len(outs) : outs[i].ok /\ Strip(outs[i].text) # <<>>}
    IN  IF good = {} THEN 0 ELSE CHOOSE i \in good : \A j \in good : i <= j

ProbedOuts ==
    CASE probe.field = "name" -> probe.page.name
      [] probe.field = "address" -> probe.page.address
      [] probe.field = "rating" -> probe.page.rating

ProbedSentinel ==
    CASE probe.field = "name" -> NoName
      [] probe.field = "address" -> NoAddress
      [] probe.field = "rating" -> NoRating

\* C18: the name, address and rating resolvers return the trimmed text of
\* the first selector, in list order, that finds an element whose trimmed
\* text is not empty; a selector that raises or finds empty text is passed
\* over; when all fail the field's sentinel is returned; nothing is raised.
C18_FirstNonEmptyOrSentinel ==
    (answer.given /\ probe.field \in {"name", "address", "rating"}) =>
        /\ ~answer.raised
        /\ answer.value = IF FirstGood(ProbedOuts) = 0 THEN ProbedSentinel
                          ELSE Strip(ProbedOuts[FirstGood(ProbedOuts)].text)

\* The address resolver passes a raising and a blank selector and returns
\* the third selector's trimmed text, not the fourth's.
C18_Witness ==
    /\ answer.given
    /\ probe.field = "address"
    /\ probe.page.address[1] = Raise
    /\ probe.page.address[2] = Found(<<" ">>)
    /\ probe.page.address[3] = Found(<<" ","A"," ">>)
    /\ probe.page.address[4] = Found(<<"B">>)
    /\ answer.value = <<"A">>

\* Links of the share panel whose value holds a coordinate pattern.
GoodLinks(page) ==
    {i \in 1..Len(page.shareLink) :
        page.shareLink[i].ok /\ LinkCoords(page.shareLink[i].text) # <<>>}

\* Method k of the coordinate chain succeeds on the page: its source holds
\* the pattern and nothing the method does raises (for the share link this
\* includes the escape key sent before the value is returned).
Succeeds(page, k) ==
    CASE k = 1 -> ReSearch(page.url.text, AtSign, Comma) # <<>>
      [] k = 2 -> page.escOk /\ GoodLinks(page) # {}
      [] k = 3 -> /\ page.scripts.ok
                  /\ \E i \in 1..Len(page.scripts.items) :
                        /\ page.scripts.items[i].ok
                        /\ ReSearch(page.scripts.items[i].text, LatKey, LngKey) # <<>>
      [] k = 4 -> /\ page.metas.ok
                  /\ page.lngMeta.ok
                  /\ page.lngMeta.text # <<>>
                  /\ \E i \in 1..Len(page.metas.items) :
                        /\ page.metas.items[i].ok
                        /\ page.metas.items[i].isLat
                        /\ page.metas.items[i].text # <<>>

C20_SharePanelDismissed ==
    /\ pc \in {"back", "open"} => ~panel
    /\ ~strayEsc

\* What the six actions of _go_back_to_list answer, in the order they are
\* tried: the five back buttons, then driver.back().
BackActions == [k \in 1..6 |-> IF k <= 5 THEN probe.btn[k] ELSE probe.bb]

\* C21: _go_back_to_list tries the back-button selectors in list order and
\* driver.back() last, stops at the first action that succeeds and returns
\* True; it returns False exactly when all six failed; it never raises.
C21_FirstBackActionWins ==
    (answer.given /\ probe.field = "back") =>
        /\ ~answer.raised
        /\ answer.back.success <=> \E k \in 1..6 : BackActions[k]
        /\ answer.back.success =>
               /\ answer.back.at \in 1..6
               /\ BackActions[answer.back.at]
               /\ \A j \in 1..(answer.back.at - 1) : ~BackActions[j]
        /\ ~answer.back.success => answer.back.at = 0

\* No back button answers and driver.back() does.
C21_Witness ==
    /\ answer.given
    /\ probe.field = "back"
    /\ \A k \in 1..5 : ~probe.btn[k]
    /\ answer.back.success
    /\ answer.back.at = 6

\* The statements at which the next step issues a browser operation
\* through self.driver.
BrowserOps ==
    {"navigate", "search", "scroll", "enumerate", "open", "fields", "back", "handler"}

\* C22: whenever the processing of the next card begins, after a card that
\* gave a record, a card whose extraction raised or a card that needed a
\* restart, the session in use shows the results listing of the search.
C22_NextCardStartsOnListing ==
    pc = "open" => (DriverLive /\ view = "listing")

\* C23: no browser operation is issued on a session that was not started
\* or that was quit, also after a restart whose start step failed.
C23_NoOperationOnDeadSession ==
    pc \in BrowserOps => DriverLive

\* C24: an exception during a card's extraction skips that card and does
\* not end the card loop: the cards of the enumerated list are attempted
\* once each, in list order, each gives at most one record, and extract()
\* terminates, also when every card triggers a restart.
C24_EveryCardOnceThenTerminates ==
    /\ [][/\ (pc' = "loop" /\ pc # "loop") =>
               idx' = (IF pc = "enumerate" THEN 0 ELSE idx + 1)
          /\ pc' # "loop" => idx' = idx
          /\ pc = "loop" => (pc' = "open" <=> idx < Len(cards))
          /\ pc' = "open" => (pc = "loop" /\ Card = cards[idx + 1])
          /\ (cards # <<>> /\ pc # "close" /\ pc' = "close") =>
                 (pc = "loop" /\ idx = Len(cards))
          /\ Len(results') <= Len(results) + 1]_vars
    /\ [](Len(results) <= idx /\ idx <= Len(cards))
    /\ <>(pc = "done")

\* Both cards needed a restart and the run ended with both attempted.
C24_Witness ==
    /\ pc = "done"
    /\ Len(cards) = 2
    /\ idx = 2
    /\ restarts >= 2
    /\ brokenAt = 2
    /\ faults

\* C25: at every moment at most one browser session the extractor started
\* is live, and once extract() has returned or raised none is, on every
\* path, a restart that failed partway included.
C25_AtMostOneLiveSession ==
    /\ Cardinality(live) <= 1
    /\ live \subseteq 1..started
    /\ pc = "done" => live = {}

\* A restart started a second session and failed after that; the run is
\* over, close() quit that session and none is left.
C25_Witness ==
    /\ pc = "done"
    /\ started = 2
    /\ driver = 2
    /\ restartFailed
    /\ closeQuit = "live"
    /\ live = {}

=============================================================================
